---- MODULE Spec2Model ----
(***************************************************************************)
(* A model of organizador_python.py: OrganizadorArchivos flattens the      *)
(* folders under carpeta_origen, prunes the emptied folders, creates the   *)
(* materia/tipo folder structure and moves every top-level file into       *)
(* materia/tipo/ according to keywords in its name and its extension.      *)
(*                                                                         *)
(* File and folder names are strings; a path is the sequence of names      *)
(* below carpeta_origen (<<>> is carpeta_origen itself).  The file system  *)
(* is a function from the existing paths to [kind, id]; the id of a file   *)
(* is its content's identity, which a move keeps and an overwrite loses.   *)
(***************************************************************************)
EXTENDS Integers, Sequences, FiniteSets, Bags, TLC

VARIABLES
    root,         \* str(self.carpeta_origen)
    cfg,          \* [materias, estructura]: the constructor's arguments
    fs,           \* the tree under carpeta_origen: path -> [kind, id]
    pc,           \* where organizar_archivos is
    args,         \* [mover, crear]: the arguments of the running call
    pend,         \* what the running loop has still to visit
    organizados,  \* archivos_organizados
    unplaced,     \* archivos_no_organizados: the bag of names, each with its printed reason
    runs,         \* calls of organizar_archivos started so far
    faults,       \* failures of the operating system injected so far
    start,        \* the tree when the running call started
    snap,         \* the tree when the loop the running call is in started
    moveErr,      \* a shutil.move of the running call raised
    rmErr,        \* a removal of the running call raised
    nbuilt,       \* completed executions of crear_estructura_carpetas
    renombrados,  \* ids of the files the running call flattened under a new name
    probe         \* [nombre, res]: an application of identificar_materia

vars == <<root, cfg, fs, pc, args, pend, organizados, unplaced, runs,
          faults, start, snap, moveErr, rmErr, nbuilt, renombrados, probe>>

(***************************************************************************)
(* Bounds of the model.                                                    *)
(***************************************************************************)
MaxFiles == 3
MaxRuns == 2
MaxFaults == 1
MaxNameLen == 3
MaxWords == 2

(***************************************************************************)
(* Strings.                                                                *)
(***************************************************************************)
None == "<None>"

Truthy(v) == v # None /\ v # ""

Range(s) == {s[i] : i \in DOMAIN s}

Char(s, i) == SubSeq(s, i, i)

UpperCase == "ABCDEFGHIJKLMNOPQRSTUVWXYZ"

LowerCase == "abcdefghijklmnopqrstuvwxyz"

\* the lower-case letter of each upper-case letter
LowerOf ==
    [c \in {Char(UpperCase, i) : i \in 1..Len(UpperCase)} |->
        Char(LowerCase, CHOOSE i \in 1..Len(UpperCase) : Char(UpperCase, i) = c)]

LowerChar(c) == IF c \in DOMAIN LowerOf THEN LowerOf[c] ELSE c

RECURSIVE Lower(_)
Lower(s) ==
    IF Len(s) = 0 THEN "" ELSE LowerChar(Char(s, 1)) \o Lower(SubSeq(s, 2, Len(s)))

\* Python's `needle in hay` on strings
Contains(hay, needle) ==
    \E i \in 0..(Len(hay) - Len(needle)) : SubSeq(hay, i + 1, i + Len(needle)) = needle

Digits == "0123456789"

RECURSIVE Dec(_)
Dec(n) ==
    IF n < 10 THEN Char(Digits, n + 1)
    ELSE Dec(n \div 10) \o Char(Digits, (n % 10) + 1)

(***************************************************************************)
(* pathlib.                                                                *)
(***************************************************************************)
Name(p) == p[Len(p)]

Parent(p) == SubSeq(p, 1, Len(p) - 1)

\* str.rfind('.') + 1, 0 when there is no dot
RFindDot(name) ==
    LET dots == {i \in 1..Len(name) : Char(name, i) = "."}
    IN  IF dots = {} THEN 0 ELSE CHOOSE i \in dots : \A j \in dots : j <= i

\* PurePath.suffix: the last dot counts when it is neither first nor last
Suffix(name) ==
    LET i == RFindDot(name)
    IN  IF 1 < i /\ i < Len(name) THEN SubSeq(name, i, Len(name)) ELSE ""

Stem(name) ==
    LET i == RFindDot(name)
    IN  IF 1 < i /\ i < Len(name) THEN SubSeq(name, 1, i - 1) ELSE name

RECURSIVE Join(_)
Join(p) ==
    IF Len(p) = 1 THEN p[1] ELSE Join(Parent(p)) \o "/" \o Name(p)

\* str(self.carpeta_origen / ...): pathlib drops a leading "."
PathStr(p) ==
    IF p = <<>> THEN root
    ELSE IF root = "." THEN Join(p)
    ELSE root \o "/" \o Join(p)

(***************************************************************************)
(* The file system.                                                        *)
(***************************************************************************)
Dir == [kind |-> "dir", id |-> 0]

File(i) == [kind |-> "file", id |-> i]

Exists(f, p) == p = <<>> \/ p \in DOMAIN f

IsDir(f, p) == p = <<>> \/ (p \in DOMAIN f /\ f[p].kind = "dir")

IsFile(f, p) == p \in DOMAIN f /\ f[p].kind = "file"

Children(f, p) == {q \in DOMAIN f : Len(q) = Len(p) + 1 /\ Parent(q) = p}

Files(f) == {p \in DOMAIN f : f[p].kind = "file"}

FileIds(f) == {f[p].id : p \in Files(f)}

Without(f, p) == [q \in DOMAIN f \ {p} |-> f[q]]

With(f, p, e) == [q \in DOMAIN f \cup {p} |-> IF q = p THEN e ELSE f[q]]

\* os.rename of a file: the target's folder must exist; an existing file at
\* the target is replaced (where rename refuses, shutil.move copies over it
\* and unlinks the source: the same result)
Rename(f, src, dst) ==
    IF IsDir(f, Parent(dst)) /\ ~IsDir(f, dst)
    THEN [ok |-> TRUE, fs |-> With(Without(f, src), dst, f[src])]
    ELSE [ok |-> FALSE, fs |-> f]

\* shutil.move(src, dst) of a file
ShutilMove(f, src, dst) ==
    IF IsDir(f, dst)
    THEN LET real == Append(dst, Name(src))
         IN  IF Exists(f, real) THEN [ok |-> FALSE, fs |-> f]
             ELSE Rename(f, src, real)
    ELSE Rename(f, src, dst)

\* a variant of Mkdir without exist_ok: FileExistsError if the path exists
MkdirSinExistOk(f, p) ==
    IF Exists(f, p) \/ ~IsDir(f, Parent(p)) THEN [ok |-> FALSE, fs |-> f]
    ELSE [ok |-> TRUE, fs |-> With(f, p, Dir)]

\* Path.mkdir(exist_ok=True): FileExistsError unless the path is a folder
Mkdir(f, p) ==
    IF IsDir(f, p) THEN [ok |-> TRUE, fs |-> f]
    ELSE IF Exists(f, p) \/ ~IsDir(f, Parent(p)) THEN [ok |-> FALSE, fs |-> f]
    ELSE [ok |-> TRUE, fs |-> With(f, p, Dir)]

(***************************************************************************)
(* The configuration: __init__.                                            *)
(***************************************************************************)
tipos_archivos == <<
    [tipo |-> "pdf",         extensiones |-> <<".pdf">>],
    [tipo |-> "words",       extensiones |-> <<".doc", ".docx">>],
    [tipo |-> "powerpoint",  extensiones |-> <<".ppt", ".pptx">>],
    [tipo |-> "imagenes",    extensiones |-> <<".jpg", ".jpeg", ".png", ".gif", ".bmp", ".tiff">>],
    [tipo |-> "diagramas",   extensiones |-> <<".vsd", ".vsdx", ".drawio", ".lnk", ".xml">>],
    [tipo |-> "comprimidos", extensiones |-> <<".zip", ".rar", ".7z", ".tar", ".gz">>],
    [tipo |-> "codigo",      extensiones |-> <<".py", ".java", ".c", ".cpp", ".js", ".html", ".css">>] >>

estructura_default == <<"pdf", "words", "powerpoint">>

Materia(nombre, palabras) == [nombre |-> nombre, palabras |-> palabras]

\* materias_con_palabras_clave in declaration order, estructura_personalizada
Config ==
    [materias   |-> << Materia("DB", <<"bd", "Rep">>), Materia("Net", <<"re">>) >>,
     estructura |-> ("DB" :> <<"pdf", "comprimidos">>)]

Roots == {".", "/home/DB"}

Materias == {cfg.materias[i].nombre : i \in DOMAIN cfg.materias}

(***************************************************************************)
(* The pure methods.                                                       *)
(***************************************************************************)
obtener_carpetas_para_materia(materia) ==
    IF materia \in DOMAIN cfg.estructura THEN cfg.estructura[materia]
    ELSE estructura_default

\* a variant of AlgunaPalabra that forgets palabra.lower()
RECURSIVE AlgunaPalabraSinLower(_, _, _)
AlgunaPalabraSinLower(palabras, nombre_lower, j) ==
    IF j > Len(palabras) THEN FALSE
    ELSE IF Contains(nombre_lower, palabras[j]) THEN TRUE
    ELSE AlgunaPalabraSinLower(palabras, nombre_lower, j + 1)

\* for palabra in palabras_clave: if palabra.lower() in nombre_lower
RECURSIVE AlgunaPalabra(_, _, _)
AlgunaPalabra(palabras, nombre_lower, j) ==
    IF j > Len(palabras) THEN FALSE
    ELSE IF Contains(nombre_lower, Lower(palabras[j])) THEN TRUE
    ELSE AlgunaPalabra(palabras, nombre_lower, j + 1)

\* for materia, palabras_clave in self.materias_palabras_clave.items()
RECURSIVE BuscarMateria(_, _, _)
BuscarMateria(materias, nombre_lower, i) ==
    IF i > Len(materias) THEN None
    ELSE IF AlgunaPalabra(materias[i].palabras, nombre_lower, 1) THEN materias[i].nombre
    ELSE BuscarMateria(materias, nombre_lower, i + 1)

identificar_materia(nombre_archivo) ==
    BuscarMateria(cfg.materias, Lower(nombre_archivo), 1)

RECURSIVE BuscarTipo(_, _)
BuscarTipo(extension_lower, i) ==
    IF i > Len(tipos_archivos) THEN None
    ELSE IF extension_lower \in Range(tipos_archivos[i].extensiones)
         THEN tipos_archivos[i].tipo
    ELSE BuscarTipo(extension_lower, i + 1)

obtener_tipo_archivo(extension) == BuscarTipo(Lower(extension), 1)

\* any(materia in str(path) for materia in self.materias_palabras_clave.keys())
EnCarpetaDeMateria(p) == \E m \in Materias : Contains(PathStr(p), m)

\* a variant of BuscarLibre with an `if` for the `while`: one try only
BuscarLibreUnaVez(f, base, ext, contador) ==
    <<base \o "_" \o Dec(contador) \o ext>>

\* the while loop of mover_archivos_de_subcarpetas
RECURSIVE BuscarLibre(_, _, _, _)
BuscarLibre(f, base, ext, contador) ==
    LET destino == <<base \o "_" \o Dec(contador) \o ext>>
    IN  IF Exists(f, destino) THEN BuscarLibre(f, base, ext, contador + 1)
        ELSE destino

Destino(f, item) ==
    LET destino == <<Name(item)>>
    IN  IF Exists(f, destino)
        THEN BuscarLibre(f, Stem(Name(item)), Suffix(Name(item)), 1)
        ELSE destino

\* crear_estructura_carpetas, one materia: the folder of the materia, then
\* one folder per tipo in order; the first mkdir that raises ends it
RECURSIVE CrearTipos(_, _, _, _)
CrearTipos(f, carpeta_materia, tipos, k) ==
    IF k > Len(tipos) THEN [ok |-> TRUE, fs |-> f]
    ELSE LET r == Mkdir(f, Append(carpeta_materia, tipos[k]))
         IN  IF r.ok THEN CrearTipos(r.fs, carpeta_materia, tipos, k + 1)
             ELSE r

CrearMateria(f, materia) ==
    LET r == Mkdir(f, <<materia>>)
    IN  IF r.ok THEN CrearTipos(r.fs, <<materia>>, obtener_carpetas_para_materia(materia), 1)
        ELSE r

\* a variant of PolicyAllows that looks at the default structure only
PolicyAllowsDefault(materia, tipo) == tipo \in Range(estructura_default)

\* line 197: if tipo in carpetas_materia
PolicyAllows(materia, tipo) == tipo \in Range(obtener_carpetas_para_materia(materia))

\* a variant of Motivo with an `elif` for the second `if`
MotivoElif(materia, tipo) ==
    IF ~Truthy(materia) THEN {"materia no identificada"}
    ELSE IF ~Truthy(tipo) THEN {"tipo de archivo no reconocido"}
    ELSE {}

\* lines 216-221: the printed reason of a file left where it is
Motivo(materia, tipo) ==
    (IF ~Truthy(materia) THEN {"materia no identificada"} ELSE {})
    \cup (IF ~Truthy(tipo) THEN {"tipo de archivo no reconocido"} ELSE {})

(***************************************************************************)
(* The initial trees: any consistent choice of at most MaxFiles of these   *)
(* files, each with the folders above it.  The id of a file is its index.  *)
(***************************************************************************)
Candidates == <<
    <<"A", "B", "rep.pdf">>,
    <<"rep.pdf">>,
    <<"rep_1.pdf">>,
    <<"DB", "pdf", "rep.pdf">>,
    <<"xDB", "bd.doc">>,
    <<"n.txt">>,
    <<"A", "DB">>,
    <<"Re.ZIP">>,
    <<"rep.doc">>,
    <<"DB", "pdf", "rep.pdf", "k">>,
    <<"n.pdf">>,
    <<"bd.x">> >>

IsPrefix(p, q) == Len(p) < Len(q) /\ SubSeq(q, 1, Len(p)) = p

Ancestors(p) == {SubSeq(p, 1, k) : k \in 1..(Len(p) - 1)}

Tree(S) ==
    LET files == {Candidates[i] : i \in S}
        dirs  == UNION {Ancestors(p) : p \in files}
    IN  [p \in files \cup dirs |->
            IF p \in files THEN File(CHOOSE i \in S : Candidates[i] = p) ELSE Dir]

Consistent(S) == \A i, j \in S : ~IsPrefix(Candidates[i], Candidates[j])

NoProbe == [nombre |-> "", res |-> ""]

Init ==
    /\ root \in Roots
    /\ cfg = Config
    /\ \E S \in SUBSET (1..Len(Candidates)) :
          /\ Cardinality(S) <= MaxFiles
          /\ Consistent(S)
          /\ fs = Tree(S)
    /\ pc = "idle"
    /\ args = [mover |-> FALSE, crear |-> FALSE]
    /\ pend = {}
    /\ organizados = 0
    /\ unplaced = EmptyBag
    /\ runs = 0
    /\ faults = 0
    /\ start = fs
    /\ snap = fs
    /\ moveErr = FALSE
    /\ rmErr = FALSE
    /\ nbuilt = 0
    /\ renombrados = {}
    /\ probe = NoProbe

(***************************************************************************)
(* organizar_archivos, step by step.                                       *)
(***************************************************************************)
\* lines 76-80: the files the flattening visits without skipping them: those
\* in a subfolder whose path does not hold the name of a materia
Movible(f, item) ==
    /\ IsFile(f, item)
    /\ Parent(item) # <<>>
    /\ ~EnCarpetaDeMateria(Parent(item))

\* lines 103-110: the folders the pruning skips: the folders of materias
\* and everything below a path that holds the name of a materia
Protegida(carpeta) ==
    \/ Name(carpeta) \in Materias
    \/ EnCarpetaDeMateria(Parent(carpeta))

Running == pc \in {"flatten", "prune", "build", "organize"}

\* lines 180-183, 223-232: self.carpeta_origen.iterdir() lists the top level,
\* of which the loop skips the folders; with nothing to visit the call ends
\* with its summary
Paso3(f) ==
    LET archivos == {p \in Files(f) : Len(p) = 1}
    IN  /\ pc' = IF archivos = {} THEN "done" ELSE "organize"
        /\ pend' = archivos
        /\ snap' = f

\* line 172: if crear_estructura
Paso2(crear, f) ==
    IF crear
    THEN /\ pc' = "build"
         /\ pend' = {}
         /\ snap' = f
    ELSE Paso3(f)

\* lines 102-110, 121-122: the folders of the second rglob that are not
\* skipped; with none of them mover_archivos_de_subcarpetas returns
Podar(crear, f) ==
    LET carpetas == {p \in DOMAIN f : f[p].kind = "dir" /\ ~Protegida(p)}
    IN  IF carpetas = {} THEN Paso2(crear, f)
        ELSE /\ pc' = "prune"
             /\ pend' = carpetas
             /\ snap' = f

\* lines 168-169, 75-80: if mover_de_subcarpetas, the files of the first
\* rglob that are not skipped
Paso1(mover, crear, f) ==
    LET archivos == {p \in DOMAIN f : Movible(f, p)}
    IN  IF ~mover THEN Paso2(crear, f)
        ELSE IF archivos = {} THEN Podar(crear, f)
        ELSE /\ pc' = "flatten"
             /\ pend' = archivos
             /\ snap' = f

\* lines 159-177: the call, up to the first loop
Start(mover, crear) ==
    /\ ~Running
    /\ runs < MaxRuns
    /\ runs' = runs + 1
    /\ args' = [mover |-> mover, crear |-> crear]
    /\ start' = fs
    /\ organizados' = 0
    /\ unplaced' = EmptyBag
    /\ moveErr' = FALSE
    /\ rmErr' = FALSE
    /\ renombrados' = {}
    /\ Paso1(mover, crear, fs)
    /\ UNCHANGED <<root, cfg, fs, faults, nbuilt, probe>>

\* the loop goes on with the entries left, or the call with what follows
SigueFlatten(resto, f) ==
    IF resto = {} THEN Podar(args.crear, f)
    ELSE /\ pend' = resto
         /\ UNCHANGED <<pc, snap>>

\* lines 75-98: one file of the rglob that is not skipped
FlattenItem(item) ==
    /\ pc = "flatten"
    /\ item \in pend
    /\ LET r == ShutilMove(fs, item, Destino(fs, item))
       IN  \/ /\ fs' = r.fs
              /\ moveErr' = (moveErr \/ ~r.ok)
              /\ renombrados' = IF r.ok /\ Exists(fs, <<Name(item)>>)
                                THEN renombrados \cup {fs[item].id}
                                ELSE renombrados
              /\ SigueFlatten(pend \ {item}, r.fs)
              /\ UNCHANGED faults
           \/ /\ faults < MaxFaults
              /\ faults' = faults + 1
              /\ moveErr' = TRUE
              /\ SigueFlatten(pend \ {item}, fs)
              /\ UNCHANGED <<fs, renombrados>>
    /\ UNCHANGED <<root, cfg, args, organizados, unplaced, runs,
                   start, rmErr, nbuilt, probe>>

\* a variant of Siguiente without reverse=True: shallowest first
SiguienteSinReverse(pendientes, carpeta) ==
    /\ carpeta \in pendientes
    /\ \A q \in pendientes : Len(carpeta) <= Len(q)

\* line 102: sorted(..., key=lambda p: len(p.parts), reverse=True): the
\* folder visited next is one of the deepest of those left
Siguiente(pendientes, carpeta) ==
    /\ carpeta \in pendientes
    /\ \A q \in pendientes : Len(q) <= Len(carpeta)

\* the loop goes on with the folders left, or the method returns
SiguePrune(resto, f) ==
    IF resto = {} THEN Paso2(args.crear, f)
    ELSE /\ pend' = resto
         /\ UNCHANGED <<pc, snap>>

\* lines 102-119: one folder that is not skipped
PruneDir(carpeta) ==
    /\ pc = "prune"
    /\ Siguiente(pend, carpeta)
    /\ IF Children(fs, carpeta) # {}
       THEN /\ SiguePrune(pend \ {carpeta}, fs)
            /\ UNCHANGED <<fs, faults, rmErr>>
       ELSE \/ /\ fs' = Without(fs, carpeta)
               /\ SiguePrune(pend \ {carpeta}, Without(fs, carpeta))
               /\ UNCHANGED <<faults, rmErr>>
            \/ /\ faults < MaxFaults
               /\ faults' = faults + 1
               /\ rmErr' = TRUE
               /\ SiguePrune(pend \ {carpeta}, fs)
               /\ UNCHANGED fs
    /\ UNCHANGED <<root, cfg, args, organizados, unplaced, runs,
                   start, moveErr, nbuilt, renombrados, probe>>

RECURSIVE CrearMaterias(_, _)
\* lines 52-63: the loop over the materias, from the i-th on; a mkdir that
\* raises ends it
CrearMaterias(f, i) ==
    IF i > Len(cfg.materias) THEN [fs |-> f, ok |-> TRUE]
    ELSE LET r == CrearMateria(f, cfg.materias[i].nombre)
         IN  IF r.ok THEN CrearMaterias(r.fs, i + 1) ELSE r

\* lines 48-63, 172-173: crear_estructura_carpetas; nothing catches what a
\* mkdir raises, and the call ends there
CrearEstructura ==
    /\ pc = "build"
    /\ LET r == CrearMaterias(fs, 1)
       IN  /\ fs' = r.fs
           /\ IF r.ok
              THEN /\ nbuilt' = nbuilt + 1
                   /\ Paso3(r.fs)
              ELSE /\ pc' = "crashed"
                   /\ UNCHANGED <<nbuilt, pend, snap>>
    /\ UNCHANGED <<root, cfg, args, organizados, unplaced, runs, faults,
                   start, moveErr, rmErr, renombrados, probe>>

NoOrganizado(nombre, motivo) ==
    unplaced' = unplaced (+) SetToBag({[nombre |-> nombre, motivo |-> motivo]})

\* the loop goes on with the entries left, or the call ends with its summary
SigueOrganize(resto) ==
    IF resto = {} THEN pc' = "done" /\ pend' = {}
    ELSE pend' = resto /\ UNCHANGED pc

\* lines 180-221: one file of the top level
OrganizeEntry(archivo) ==
    /\ pc = "organize"
    /\ archivo \in pend
    /\ SigueOrganize(pend \ {archivo})
    /\ LET nombre_archivo == Name(archivo)
           materia == identificar_materia(nombre_archivo)
           tipo    == obtener_tipo_archivo(Suffix(nombre_archivo))
       IN  IF Truthy(materia) /\ Truthy(tipo)
           THEN IF PolicyAllows(materia, tipo)
                THEN LET r == ShutilMove(fs, archivo, <<materia, tipo, nombre_archivo>>)
                     IN  \/ /\ r.ok
                            /\ fs' = r.fs
                            /\ organizados' = organizados + 1
                            /\ UNCHANGED <<unplaced, faults, moveErr>>
                         \/ /\ ~r.ok
                            /\ NoOrganizado(nombre_archivo, {"error moviendo"})
                            /\ moveErr' = TRUE
                            /\ UNCHANGED <<fs, organizados, faults>>
                         \/ /\ faults < MaxFaults
                            /\ faults' = faults + 1
                            /\ NoOrganizado(nombre_archivo, {"error moviendo"})
                            /\ moveErr' = TRUE
                            /\ UNCHANGED <<fs, organizados>>
                ELSE /\ NoOrganizado(nombre_archivo, {"no tiene carpeta"})
                     /\ UNCHANGED <<fs, organizados, faults, moveErr>>
           ELSE /\ NoOrganizado(nombre_archivo, Motivo(materia, tipo))
                /\ UNCHANGED <<fs, organizados, faults, moveErr>>
    /\ UNCHANGED <<root, cfg, args, runs, start, snap, rmErr, nbuilt, renombrados, probe>>

Next ==
    \/ \E mover, crear \in BOOLEAN : Start(mover, crear)
    \/ \E item \in pend : FlattenItem(item)
    \/ \E carpeta \in pend : PruneDir(carpeta)
    \/ CrearEstructura
    \/ \E archivo \in pend : OrganizeEntry(archivo)

Spec == Init /\ [][Next]_vars

(***************************************************************************)
(* identificar_materia on its own: Init draws a file name and a            *)
(* configuration of one or two materias, the action applies the method.    *)
(***************************************************************************)
ProbeAlphabet == {"a", "A", "b"}

ProbeWords == {"A", "aB", "b"}

RECURSIVE Strings(_)
Strings(n) ==
    IF n = 0 THEN {""}
    ELSE LET S == Strings(n - 1) IN S \cup {x \o c : x \in S, c \in ProbeAlphabet}

WordLists == UNION {[1..k -> ProbeWords] : k \in 0..MaxWords}

ProbeConfigs ==
    {[materias |-> <<Materia("M1", w)>>, estructura |-> <<>>] : w \in WordLists}
    \cup {[materias |-> <<Materia("M1", w[1]), Materia("M2", w[2])>>, estructura |-> <<>>] :
             w \in WordLists \X WordLists}

InitMatch ==
    /\ root = "."
    /\ cfg \in ProbeConfigs
    /\ fs = <<>>
    /\ pc = "probe"
    /\ args = [mover |-> FALSE, crear |-> FALSE]
    /\ pend = {}
    /\ organizados = 0
    /\ unplaced = EmptyBag
    /\ runs = 0
    /\ faults = 0
    /\ start = fs
    /\ snap = fs
    /\ moveErr = FALSE
    /\ rmErr = FALSE
    /\ nbuilt = 0
    /\ renombrados = {}
    /\ probe \in {[nombre |-> n, res |-> ""] : n \in Strings(MaxNameLen)}

\* line 190: materia = self.identificar_materia(nombre_archivo)
Identificar ==
    /\ pc = "probe"
    /\ probe' = [probe EXCEPT !.res = identificar_materia(probe.nombre)]
    /\ pc' = "probed"
    /\ UNCHANGED <<root, cfg, fs, args, pend, organizados, unplaced, runs,
                   faults, start, snap, moveErr, rmErr, nbuilt, renombrados>>

NextMatch == Identificar

SpecMatch == InitMatch /\ [][NextMatch]_vars

(***************************************************************************)
(* What the claims speak of.                                               *)
(***************************************************************************)
\* two characters that are the same letter, whatever their case
SameLetter(c, d) ==
    \/ c = d
    \/ \E i \in 1..Len(UpperCase) : {c, d} = {Char(UpperCase, i), Char(LowerCase, i)}

\* w occurs in F, case ignored
OccursIn(w, F) ==
    \E k \in 0..(Len(F) - Len(w)) :
        \A j \in 1..Len(w) : SameLetter(Char(w, j), Char(F, k + j))

\* the i-th materia has a keyword that occurs in F
Matches(i, F) ==
    \E j \in DOMAIN cfg.materias[i].palabras : OccursIn(cfg.materias[i].palabras[j], F)

\* allowed_types: the custom list of the materia if it has one, else the default
AllowedTypes(S) ==
    IF S \in DOMAIN cfg.estructura THEN Range(cfg.estructura[S])
    ELSE {"pdf", "words", "powerpoint"}

\* the files the organize loop of the running call scanned
Scanned == {p \in Files(snap) : Len(p) = 1}

\* the entries of archivos_no_organizados with this name
CopiesOfName(n) ==
    LET es == {e \in BagToSet(unplaced) : e.nombre = n}
    IN  IF es = {} THEN 0
        ELSE BagCardinality([e \in es |-> unplaced[e]])

(***************************************************************************)
(* C3: identificar_materia returns the first materia, in declaration       *)
(* order, one of whose keywords occurs in the file name with case ignored, *)
(* and None exactly when no keyword of any materia does.                   *)
(***************************************************************************)
C3_FirstMatch ==
    pc = "probed" =>
        LET F   == probe.nombre
            hit == {i \in DOMAIN cfg.materias : Matches(i, F)}
        IN  IF hit = {} THEN probe.res = None
            ELSE /\ probe.res # None
                 /\ probe.res = cfg.materias[CHOOSE i \in hit : \A k \in hit : i <= k].nombre

\* both materias match, the first one only with the case ignored
C3_Witness ==
    /\ pc = "probed"
    /\ Len(cfg.materias) = 2
    /\ Matches(1, probe.nombre) /\ Matches(2, probe.nombre)
    /\ \A j \in DOMAIN cfg.materias[1].palabras :
          ~Contains(probe.nombre, cfg.materias[1].palabras[j])
    /\ probe.res = "M1"

\* the path of the folder of p, the root's included, holds the name of no materia
NoMateriaInPath(p) ==
    \A m \in Materias :
        /\ ~Contains(root, m)
        /\ \A k \in 1..(Len(p) - 1) : ~Contains(p[k], m)

(***************************************************************************)
(* C1, as stated: after organizar_archivos(True, True) without a failed    *)
(* move, every file that was nested in folders that are not folders of     *)
(* materias (here: whose path holds the name of no materia), whose name    *)
(* holds a keyword of a materia S and whose type T is allowed for S, is at *)
(* S/T/<name>, and no folder that held it is left empty.                   *)
(***************************************************************************)
FullRunDone == pc = "done" /\ args.mover /\ args.crear

Arrived(p, S, T) ==
    /\ IsFile(fs, <<S, T, Name(p)>>)
    /\ fs[<<S, T, Name(p)>>].id = start[p].id
    /\ \A D \in Ancestors(p) : D \notin DOMAIN fs \/ Children(fs, D) # {}

C1_AsStated ==
    (FullRunDone /\ ~moveErr) =>
        \A p \in Files(start) : \A i \in DOMAIN cfg.materias :
            LET S == cfg.materias[i].nombre
                T == obtener_tipo_archivo(Suffix(Name(p)))
            IN  (/\ Len(p) >= 2
                 /\ NoMateriaInPath(p)
                 /\ Matches(i, Name(p))
                 /\ T \in AllowedTypes(S))
                => Arrived(p, S, T)

(***************************************************************************)
(* C1, amended: after organizar_archivos(True, True) without a failed move *)
(* or removal, every file that was nested in folders whose path holds the  *)
(* name of no materia, that the flattening moved under its own name, for   *)
(* which identificar_materia gives S, whose type T is allowed for S and    *)
(* for which S/T/<name> was not a folder, is at S/T/<name>, and no folder  *)
(* that held it is left empty.                                             *)
(***************************************************************************)
C1_RoundTrip ==
    (FullRunDone /\ ~moveErr /\ ~rmErr) =>
        \A p \in Files(start) :
            LET S == identificar_materia(Name(p))
                T == obtener_tipo_archivo(Suffix(Name(p)))
            IN  (/\ Len(p) >= 2
                 /\ NoMateriaInPath(p)
                 /\ start[p].id \notin renombrados
                 /\ S # None
                 /\ T \in AllowedTypes(S)
                 /\ ~IsDir(start, <<S, T, Name(p)>>))
                => Arrived(p, S, T)

\* a file that was two folders deep has arrived and both folders are gone
C1_Witness ==
    /\ FullRunDone /\ ~moveErr /\ ~rmErr
    /\ \E p \in Files(start) :
          /\ Len(p) = 3
          /\ NoMateriaInPath(p)
          /\ start[p].id \notin renombrados
          /\ identificar_materia(Name(p)) # None
          /\ IsFile(fs, <<identificar_materia(Name(p)),
                          obtener_tipo_archivo(Suffix(Name(p))), Name(p)>>)
          /\ \A D \in Ancestors(p) : D \notin DOMAIN fs

(***************************************************************************)
(* C2: a step of the flattening that changes the tree moves one nested     *)
(* file to the top level, under its own name if that name is free there    *)
(* and else under <stem>_<n><ext> for the smallest n >= 1 that is free,    *)
(* and leaves every other entry as it was; neither the flattening nor the  *)
(* pruning changes the set of files' contents.                             *)
(***************************************************************************)
Suffixed(name, n) == Stem(name) \o "_" \o Dec(n) \o Suffix(name)

FlattenStep ==
    \/ fs' = fs
    \/ \E item \in Files(fs) : \E d \in DOMAIN fs' \ DOMAIN fs :
          /\ Len(item) >= 2
          /\ Len(d) = 1
          /\ fs' = With(Without(fs, item), d, fs[item])
          /\ IF <<Name(item)>> \notin DOMAIN fs THEN d = <<Name(item)>>
             ELSE \E n \in 1..(Cardinality(DOMAIN fs) + 1) :
                     /\ d = <<Suffixed(Name(item), n)>>
                     /\ \A k \in 1..(n - 1) : <<Suffixed(Name(item), k)>> \in DOMAIN fs

C2_FlattenCollisionSafe ==
    [][(pc = "flatten" => FlattenStep)
       /\ (pc \in {"flatten", "prune"} =>
              FileIds(fs') = FileIds(fs) /\ Cardinality(Files(fs')) = Cardinality(Files(fs)))]_vars

\* a nested file was moved to <stem>_2<ext>: its name and <stem>_1<ext> were taken
C2_Witness ==
    /\ pc \in {"flatten", "prune"}
    /\ \E p \in Files(start) :
          /\ Len(p) >= 2
          /\ IsFile(fs, <<Suffixed(Name(p), 2)>>)
          /\ fs[<<Suffixed(Name(p), 2)>>].id = start[p].id
          /\ \A q \in {<<Name(p)>>, <<Suffixed(Name(p), 1)>>} :
                IsFile(start, q) /\ IsFile(fs, q) /\ fs[q] = start[q]

(***************************************************************************)
(* C4: at the end of a call, every top-level file the loop scanned whose   *)
(* materia and type both resolve but whose type is not allowed for the     *)
(* materia is where it was, and is listed once as not organized with the   *)
(* reason that the materia has no folder for the type.                     *)
(***************************************************************************)
Excluded(p) ==
    LET S == identificar_materia(Name(p))
        T == obtener_tipo_archivo(Suffix(Name(p)))
    IN  S # None /\ T # None /\ T \notin AllowedTypes(S)

C4_PolicyExclusion ==
    pc = "done" =>
        \A p \in Scanned :
            Excluded(p) =>
                /\ IsFile(fs, p) /\ fs[p] = snap[p]
                /\ CopiesOfName(Name(p)) = 1
                /\ [nombre |-> Name(p), motivo |-> {"no tiene carpeta"}] \in BagToSet(unplaced)

\* one file excluded by a custom list and one excluded by the default structure
C4_Witness ==
    /\ pc = "done"
    /\ \E p, q \in Scanned :
          /\ Excluded(p) /\ identificar_materia(Name(p)) \in DOMAIN cfg.estructura
          /\ Excluded(q) /\ identificar_materia(Name(q)) \notin DOMAIN cfg.estructura

(***************************************************************************)
(* C5: at the end of a call, every scanned top-level file whose materia or *)
(* type does not resolve is where it was and is listed once as not         *)
(* organized, with one reason per unresolved part; every scanned file is   *)
(* counted once, as organized (and then gone from the top level) or as not *)
(* organized (and then where it was).                                      *)
(***************************************************************************)
Reasons(p) ==
    (IF identificar_materia(Name(p)) = None THEN {"materia no identificada"} ELSE {})
    \cup (IF obtener_tipo_archivo(Suffix(Name(p))) = None
          THEN {"tipo de archivo no reconocido"} ELSE {})

C5_UnplacedAccounting ==
    pc = "done" =>
        /\ organizados + BagCardinality(unplaced) = Cardinality(Scanned)
        /\ \A p \in Scanned :
              /\ CopiesOfName(Name(p)) <= 1
              /\ CopiesOfName(Name(p)) = 1 => (IsFile(fs, p) /\ fs[p] = snap[p])
              /\ CopiesOfName(Name(p)) = 0 => p \notin DOMAIN fs
              /\ Reasons(p) # {} =>
                    /\ CopiesOfName(Name(p)) = 1
                    /\ [nombre |-> Name(p), motivo |-> Reasons(p)] \in BagToSet(unplaced)

\* a file with both reasons, one with each reason alone
C5_Witness ==
    /\ pc = "done"
    /\ \A r \in (SUBSET {"materia no identificada", "tipo de archivo no reconocido"}) \ {{}} :
          \E p \in Scanned : Reasons(p) = r

(***************************************************************************)
(* C6: a call never ends in an error; a file whose move in the organize    *)
(* loop fails is where it was and is listed as not organized.              *)
(***************************************************************************)
C6_NoFatalError ==
    /\ pc # "crashed"
    /\ pc = "done" =>
          \A e \in BagToSet(unplaced) :
              e.motivo = {"error moviendo"} =>
                  IsFile(fs, <<e.nombre>>) /\ fs[<<e.nombre>>] = snap[<<e.nombre>>]

(***************************************************************************)
(* C7: no step of a later call moves, renames or removes a file at         *)
(* <materia>/<tipo>/ or removes the folder of a materia or a folder inside *)
(* it.                                                                     *)
(***************************************************************************)
C7_RerunSafe ==
    [][runs >= 2 =>
          \A p \in DOMAIN fs :
              (p[1] \in Materias /\ (Len(p) <= 2 \/ (Len(p) = 3 /\ IsFile(fs, p))))
              => (p \in DOMAIN fs' /\ fs'[p] = fs[p])]_vars

(***************************************************************************)
(* C8: once crear_estructura_carpetas has run, every materia has its       *)
(* folder and in it one folder for each of its allowed types; running it   *)
(* again raises nothing and leaves the tree as it is.                      *)
(***************************************************************************)
StructureComplete ==
    \A m \in Materias :
        /\ IsDir(fs, <<m>>)
        /\ \A t \in AllowedTypes(m) : IsDir(fs, <<m, t>>)

C8_BuilderIdempotent ==
    /\ [](nbuilt >= 1 => StructureComplete)
    /\ [][(pc = "build" /\ nbuilt >= 1) => (fs' = fs /\ pc' # "crashed")]_vars

\* crear_estructura_carpetas has run to its end twice
C8_Witness == nbuilt = 2

(***************************************************************************)
(* C9: after organizar_archivos(True, True) without a failed move, every   *)
(* file is at the top level or at <materia>/<tipo>/<name> for a materia    *)
(* and one of its allowed types, whatever the tree was (stated here for    *)
(* the trees in which the folders of the materias held files at            *)
(* <materia>/<tipo>/<name> only).                                          *)
(***************************************************************************)
InLayout(p) ==
    \/ Len(p) = 1
    \/ Len(p) = 3 /\ p[1] \in Materias /\ p[2] \in AllowedTypes(p[1])

C9_RootLayout ==
    (/\ FullRunDone /\ ~moveErr
     /\ \A p \in Files(start) : p[1] \in Materias => InLayout(p))
    => \A p \in Files(fs) : InLayout(p)

(***************************************************************************)
(* C10: a call of organizar_archivos destroys no file: at its end the      *)
(* files under the root are those of its start.                            *)
(***************************************************************************)
C10_OrganizeKeepsFiles ==
    pc = "done" =>
        /\ FileIds(fs) = FileIds(start)
        /\ Cardinality(Files(fs)) = Cardinality(Files(start))

====
